---- MODULE Spec2Model ----
(***************************************************************************)
(* SAE-PK confirm-stage subsystem of hostap (src/common/sae_pk.c):         *)
(* base-32 password codec, password validation, K_AP fingerprint check,    *)
(* transcript serialisation, confirm element builder and parser.           *)
(* Strings are sequences of character codes, octet strings are sequences   *)
(* of integers 0..255; C index i is TLA+ index i + 1.                       *)
(***************************************************************************)
EXTENDS Integers, Sequences, FiniteSets, TLC

VARIABLES
    pc,         \* position of the caller between the operations
    password,   \* the password string handed to the validator / sae_pk_set_password
    valid,      \* result of sae_pk_valid_password
    src,        \* octets handed to sae_pk_base32_encode
    len_bits,   \* its bit length
    encoded,    \* result of sae_pk_base32_encode (with separators the caller added)
    decoded,    \* result of sae_pk_base32_decode
    sta_sae,        \* struct sae_data (with its tmp) of the station
    hash,       \* output of the sae_hash call inside sae_pk_valid_fingerprint
    fpres,      \* what sae_pk_valid_fingerprint returned and compared
    ap_sae,         \* struct sae_data (with its tmp) of the access point
    pkc,        \* the AP key container (struct sae_pk) bound to ap_sae
    confirm_buf,        \* the wpabuf of the confirm frame the AP builds
    wres,       \* what sae_write_confirm_pk returned and built; confirm_buf before it
    confirm_ies,        \* the elements of the confirm frame the station received
    cres,       \* what sae_check_confirm_pk returned and executed
    scen        \* how the two sessions were set up

vars == <<pc, password, valid, src, len_bits, encoded, decoded, sta_sae, hash, fpres,
          ap_sae, pkc, confirm_buf, wres, confirm_ies, cres, scen>>

----------------------------------------------------------------------------
(* Character codes and integer helpers *)

DASH == 45
EQUALS == 61
NOT_IN_TABLE == 128

Pow2Table == <<1, 2, 4, 8, 16, 32, 64, 128, 256>>
Pow2(n) == Pow2Table[n + 1]

\* bit k (0 = least significant) of an octet
BitOf(v, k) == (v \div Pow2(k)) % 2

\* u8 arithmetic
Shr8(x, n) == x \div Pow2(n)
Shl8(x, n) == (x * Pow2(n)) % 256
RECURSIVE OrBits(_, _)
OrBits(a, b) ==
    IF a = 0 THEN b
    ELSE IF b = 0 THEN a
    ELSE (IF a % 2 = 1 \/ b % 2 = 1 THEN 1 ELSE 0) + 2 * OrBits(a \div 2, b \div 2)
Or8(a, b) == OrBits(a, b) % 256

\* A u64 is a sequence of 8 octets, index 1 the most significant: shifts keep
\* the width of the C type (bits shifted past bit 63 are lost).
Zero64 == <<0, 0, 0, 0, 0, 0, 0, 0>>
Octet64(b, j) == IF j >= 1 /\ j <= 8 THEN b[j] ELSE 0
ShlOctet64(b, q, r, i) ==
    ((Octet64(b, i + q) * Pow2(r)) % 256) + (Octet64(b, i + q + 1) \div Pow2(8 - r))
Shl64(b, n) ==
    LET q == n \div 8
        r == n % 8
    IN  <<ShlOctet64(b, q, r, 1), ShlOctet64(b, q, r, 2), ShlOctet64(b, q, r, 3),
          ShlOctet64(b, q, r, 4), ShlOctet64(b, q, r, 5), ShlOctet64(b, q, r, 6),
          ShlOctet64(b, q, r, 7), ShlOctet64(b, q, r, 8)>>
\* b | v for an integer v below 256
OrLow64(b, v) == <<b[1], b[2], b[3], b[4], b[5], b[6], b[7], Or8(b[8], v)>>
\* (b >> shift) & (2^w - 1), for w <= 8
Field64(b, shift, w) ==
    LET q == shift \div 8
        r == shift % 8
    IN  ((Octet64(b, 8 - q) + 256 * Octet64(b, 7 - q)) \div Pow2(r)) % Pow2(w)

\* "abcdefghijklmnopqrstuvwxyz234567"
sae_pk_base32_table ==
    <<97, 98, 99, 100, 101, 102, 103, 104, 105, 106, 107, 108, 109, 110, 111, 112,
      113, 114, 115, 116, 117, 118, 119, 120, 121, 122, 50, 51, 52, 53, 54, 55>>

\* os_strchr(sae_pk_base32_table, c) for a non-NUL c
InTable(c) == \E i \in 1..32 : sae_pk_base32_table[i] = c

----------------------------------------------------------------------------
(* sae_pk_valid_password *)

RECURSIVE ValidPasswordLoop(_, _)
ValidPasswordLoop(pw, pos) ==
    IF pos >= Len(pw)
    THEN IF pos = 0 THEN FALSE ELSE pw[pos] # DASH
    ELSE IF pos # 0 /\ pos % 5 = 4
         THEN IF pw[pos + 1] # DASH THEN FALSE ELSE ValidPasswordLoop(pw, pos + 1)
         ELSE IF ~InTable(pw[pos + 1]) THEN FALSE
              ELSE ValidPasswordLoop(pw, pos + 1)

\* variant without the final check of the last character
sae_pk_valid_password_no_last(pw) ==
    IF Len(pw) < 9 THEN FALSE
    ELSE \A pos \in 0..(Len(pw) - 1) :
            IF pos # 0 /\ pos % 5 = 4 THEN pw[pos + 1] = DASH ELSE InTable(pw[pos + 1])

sae_pk_valid_password(pw) ==
    IF Len(pw) < 9 THEN FALSE ELSE ValidPasswordLoop(pw, 0)

----------------------------------------------------------------------------
(* add_char and sae_pk_base32_encode *)

\* variant that separates groups of five characters
add_char_group5(st, idx) ==
    IF st.bits = 0 THEN st
    ELSE LET bits2 == IF st.bits > 5 THEN st.bits - 5 ELSE 0
             out1 == IF Len(st.out) % 6 = 5 THEN Append(st.out, DASH) ELSE st.out
         IN  [out |-> Append(out1, sae_pk_base32_table[idx + 1]), bits |-> bits2]

\* st = [out, bits]; pos - start is Len(st.out)
add_char(st, idx) ==
    IF st.bits = 0 THEN st
    ELSE LET bits2 == IF st.bits > 5 THEN st.bits - 5 ELSE 0
             out1 == IF Len(st.out) % 5 = 4 THEN Append(st.out, DASH) ELSE st.out
         IN  [out |-> Append(out1, sae_pk_base32_table[idx + 1]), bits |-> bits2]

RECURSIVE EncodeBlock(_, _, _)
EncodeBlock(st, block, j) ==
    IF j < 0 THEN st
    ELSE EncodeBlock(add_char(st, Field64(block, j * 5, 5)), block, j - 1)

RECURSIVE EncodeLoop(_, _, _, _, _)
EncodeLoop(s, len, i, block, st) ==
    IF i >= len + ((5 - (len % 5)) % 5) THEN st
    ELSE LET val == IF i < len THEN s[i + 1] ELSE 0
             b2 == OrLow64(Shl64(block, 8), val)
         IN  IF i % 5 = 4
             THEN EncodeLoop(s, len, i + 1, Zero64, EncodeBlock(st, b2, 7))
             ELSE EncodeLoop(s, len, i + 1, b2, st)

\* [ok, out]: ok = FALSE is the NULL return. The guard len >= SIZE_MAX / 8
\* (2^61 - 1 on the 64-bit size type) is beyond every length of the model.
sae_pk_base32_encode(s, lbits) ==
    LET len == (lbits + 7) \div 8
    IN  IF len = 0
        THEN [ok |-> FALSE, out |-> <<>>]
        ELSE [ok |-> TRUE,
              out |-> EncodeLoop(s, len, 0, Zero64, [out |-> <<>>, bits |-> lbits]).out]

----------------------------------------------------------------------------
(* sae_pk_base32_decode *)

TableIndex(c) == CHOOSE i \in 0..31 : sae_pk_base32_table[i + 1] = c

\* variant that gives the separator a value instead of skipping it
dtable_dash_valid(c) ==
    IF c = EQUALS \/ c = DASH THEN 0
    ELSE IF InTable(c) THEN TableIndex(c)
    ELSE NOT_IN_TABLE

dtable(c) ==
    IF c = EQUALS THEN 0
    ELSE IF InTable(c) THEN TableIndex(c)
    ELSE NOT_IN_TABLE

\* the characters the loops do not skip
NotSkipped(c) == dtable(c) # NOT_IN_TABLE

\* block <<= 5; block |= tmp over characters k..8 of one group of eight
RECURSIVE ShiftIn(_, _, _)
ShiftIn(group, k, block) ==
    IF k > 8 THEN block
    ELSE ShiftIn(group, k + 1, OrLow64(Shl64(block, 5), dtable(group[k])))

\* The second loop over src followed by extra_pad '=' characters, taken one
\* group of eight unskipped characters (chars[at .. at + 7]) at a time; pad
\* counts the '=' seen so far.
RECURSIVE DecodeLoop(_, _, _, _)
DecodeLoop(chars, at, pad, out) ==
    IF at + 7 > Len(chars) THEN out
    ELSE LET group == SubSeq(chars, at, at + 7)
             pad2 == pad + Len(SelectSeq(group, LAMBDA c : c = EQUALS))
             block == ShiftIn(group, 1, Zero64)
             out2 == out \o <<Field64(block, 32, 8), Field64(block, 24, 8),
                              Field64(block, 16, 8), Field64(block, 8, 8),
                              Field64(block, 0, 8)>>
         IN  IF pad2 # 0
             THEN SubSeq(out2, 1, Len(out2) - ((pad2 * 5) \div 8))
             ELSE DecodeLoop(chars, at + 8, pad2, out2)

\* [ok, out]: ok = FALSE is the NULL return (out_len left unwritten)
sae_pk_base32_decode(s) ==
    LET count == Len(SelectSeq(s, NotSkipped))
        extra_pad == (8 - (count % 8)) % 8
        chars == SelectSeq(s, NotSkipped) \o [i \in 1..extra_pad |-> EQUALS]
    IN  IF count = 0 THEN [ok |-> FALSE, out |-> <<>>]
        ELSE [ok |-> TRUE, out |-> DecodeLoop(chars, 1, 0, <<>>)]

--------------------------------------------------------------------------------------------------------------------------------------------------------------------------------------------------------
(* Session state *)

\* encoded and decoded before the call: the [ok, out] of a NULL return
NoResult == [ok |-> FALSE, out |-> <<>>]

\* an EC point / a commit element; ok = FALSE stands for one that
\* crypto_ec_point_to_bin cannot serialise
NoPoint == [ok |-> FALSE, x |-> 0, y |-> 0]
ZeroAddr == <<0, 0, 0, 0, 0, 0>>

\* struct sae_data and its struct sae_temporary_data after allocation
\* (os_zalloc): no password, no key, nothing negotiated. has_tmp is
\* sae->tmp != NULL, has_pw is tmp->pw != NULL, ap_pk is tmp->ap_pk != NULL,
\* ec is tmp->ec != NULL; kek stands for the octets of tmp->kek; a scalar
\* below 0 is one crypto_bignum_to_bin cannot encode.
NewSession ==
    [has_tmp |-> TRUE, pk |-> FALSE, ap_pk |-> FALSE, group |-> 0,
     kek_len |-> 0, kek |-> 0, ec |-> FALSE, prime_len |-> 0,
     own_commit_element_ecc |-> NoPoint, peer_commit_element_ecc |-> NoPoint,
     own_commit_scalar |-> 0, peer_commit_scalar |-> 0,
     own_addr |-> ZeroAddr, peer_addr |-> ZeroAddr, ssid |-> <<>>,
     has_pw |-> FALSE, pw |-> <<>>, pw_len |-> 0, lambda |-> 0]

NoSession == [NewSession EXCEPT !.has_tmp = FALSE]

NoHash == [ok |-> FALSE, out |-> <<>>]

NoFingerprint == [called |-> FALSE]

----------------------------------------------------------------------------
(* sae_pk_set_password *)

\* [ret, sae]
sae_pk_set_password(sae, pwstr) ==
    LET len == Len(pwstr)
    IN  IF ~sae.has_tmp \/ len < 1 THEN [ret |-> -1, sae |-> sae]
        ELSE LET d == sae_pk_base32_decode(pwstr)
             IN  [ret |-> IF d.ok THEN 0 ELSE -1,
                  sae |-> [sae EXCEPT !.has_pw = d.ok,
                                      !.pw = d.out,
                                      !.pw_len = IF d.ok THEN Len(d.out) ELSE @,
                                      !.lambda = len - (len \div 5)]]

----------------------------------------------------------------------------
(* sae_group_2_hash_len, sae_hash, sae_pk_valid_fingerprint *)

sae_group_2_hash_len(group) ==
    CASE group = 19 -> 32
      [] group = 20 -> 48
      [] group = 21 -> 64
      [] OTHER -> 0

\* sae_hash dispatches on hash_len (SHA-384 and SHA-512 built in); any other
\* length is an error before a digest function is called
HashLenSupported(hash_len) == hash_len \in {32, 48, 64}

\* variant that keeps the extra bits of the last octet
MaskLastOctetKeep(h, fingerprint_bits) == h

\* "Zero out the extra bits in the last octet"
MaskLastOctet(h, fingerprint_bits) ==
    IF fingerprint_bits % 8 # 0
    THEN LET extra == 8 - (fingerprint_bits % 8)
             at == (fingerprint_bits \div 8) + 1
         IN  [h EXCEPT ![at] = Shl8(Shr8(h[at], extra), extra)]
    ELSE h

\* fingerprint_exp: sec zero octets, then pw shifted left by two bits
FingerprintExp(pw, pw_len, sec) ==
    [i \in 1..(sec + pw_len) |->
        IF i <= sec THEN 0
        ELSE LET j == i - sec
                 next == IF j + 1 <= pw_len THEN pw[j + 1] ELSE 0
             IN  Or8(Shl8(pw[j], 2), Shr8(next, 6))]

\* os_memcmp_const(a, b, len) over a buffer b of Len(b) octets: an octet read
\* past the end of b is whatever the heap holds there (beyond)
MemcmpConstEqual(a, b, len, beyond) ==
    \A i \in 1..len : a[i] = (IF i <= Len(b) THEN b[i] ELSE beyond)

\* h is what sae_hash wrote ([ok, out], ok = FALSE for a return below 0),
\* beyond the octet value found past the end of fingerprint_exp.
\* [called, res, compared, sec, bits, bytes, exp_len, hash_len]
sae_pk_valid_fingerprint(sae, h, group, beyond) ==
    LET hash_len == sae_group_2_hash_len(group)
        none == [called |-> TRUE, res |-> FALSE, compared |-> FALSE, sec |-> 0,
                 bits |-> 0, bytes |-> 0, exp_len |-> 0, hash_len |-> hash_len]
    IN  IF ~sae.has_pw \/ sae.pw_len < 1 THEN none
        ELSE IF ~HashLenSupported(hash_len) \/ ~h.ok THEN none
        ELSE LET sec == Shr8(sae.pw[1], 6) + 2
                 fingerprint_bits == 8 * sec + 5 * sae.lambda - 2
                 fingerprint_bytes == (fingerprint_bits + 7) \div 8
                 seen == [none EXCEPT !.sec = sec, !.bits = fingerprint_bits]
             IN  IF fingerprint_bits > hash_len * 8 THEN seen
                 ELSE LET masked == MaskLastOctet(h.out, fingerprint_bits)
                          fingerprint_exp == FingerprintExp(sae.pw, sae.pw_len, sec)
                      IN  [seen EXCEPT
                             !.compared = TRUE,
                             !.bytes = fingerprint_bytes,
                             !.exp_len = sec + sae.pw_len,
                             !.res = MemcmpConstEqual(masked, fingerprint_exp,
                                                      fingerprint_bytes, beyond)]

----------------------------------------------------------------------------
(* Constants of the confirm element *)

SAE_PK_M_LEN == 16
AES_BLOCK_SIZE == 16
ETH_ALEN == 6
WLAN_EID_VENDOR_SPECIFIC == 221
WLAN_EID_EXTENSION == 255
WLAN_EID_EXT_FILS_PUBLIC_KEY == 12
WLAN_EID_EXT_FILS_KEY_CONFIRM == 3
KEY_TYPE_ECDSA == 3
\* 0x506f9a1f, big endian
SAE_PK_IE_VENDOR_TYPE == <<80, 111, 154, 31>>
ELEM_ALLOC == 1500
VENDOR_HEADER_LEN == 6
DER_SEQUENCE == 48

----------------------------------------------------------------------------
(* Collaborators: wpabuf, hash, AES-SIV, EC keys and signatures *)

\* struct wpabuf: size octets allocated, Len(data) of them used
wpabuf_alloc(size) == [size |-> size, data |-> <<>>]
wpabuf_len(buf) == Len(buf.data)
wpabuf_tailroom(buf) == buf.size - Len(buf.data)

\* wpabuf_put and the copy that follows it: a put past the end of the buffer
\* ends the process (wpabuf_overflow calls abort) before anything is copied.
\* [buf, aborted]
wpabuf_put_data(st, octets) ==
    IF st.aborted THEN st
    ELSE IF Len(st.buf.data) + Len(octets) > st.buf.size
         THEN [st EXCEPT !.aborted = TRUE]
         ELSE [st EXCEPT !.buf.data = @ \o octets]

\* wpabuf_put_u8 stores the low eight bits of its argument
wpabuf_put_u8(st, v) == wpabuf_put_data(st, <<v % 256>>)

RECURSIVE SumRange(_, _, _)
SumRange(f, lo, hi) ==
    IF lo > hi THEN 0
    ELSE IF lo = hi THEN f[lo]
    ELSE LET mid == (lo + hi) \div 2
         IN  SumRange(f, lo, mid) + SumRange(f, mid + 1, hi)

\* The digest function: deterministic in the data, its length and the order
\* of its octets. Every digest starts with two zero octets, so that every
\* (SSID, M, K_AP) has a password with Sec = 2 (the AP's provisioning picks M
\* to make it so).
DigestModel(hash_len, data) ==
    LET n == Len(data)
        c1 == SumRange(data, 1, n)
        c2 == SumRange([i \in 1..n |-> (i % 199) * data[i]], 1, n)
    IN  [j \in 1..hash_len |->
            IF j <= 2 THEN 0 ELSE (c1 * j + c2 + (c2 \div j) + n) % 256]

\* sae_hash: [ok, out], ok = FALSE for the return of -1
sae_hash(hash_len, data) ==
    IF hash_len \in {32, 48, 64}
    THEN [ok |-> TRUE, out |-> DigestModel(hash_len, data)]
    ELSE [ok |-> FALSE, out |-> <<>>]

\* AES-SIV without AAD: a 16-octet synthetic IV, then the ciphertext.
\* Decryption under the same key returns the plaintext; under another key, or
\* of changed octets, it fails.
SivTag(kek, kek_len, plain) ==
    [i \in 1..AES_BLOCK_SIZE |->
        (SumRange(plain, 1, Len(plain)) + 31 * kek + kek_len + i) % 256]

aes_siv_encrypt(kek, kek_len, plain) ==
    SivTag(kek, kek_len, plain) \o [i \in 1..Len(plain) |-> (plain[i] + kek) % 256]

\* [ret, out]
aes_siv_decrypt(kek, kek_len, crypt) ==
    LET plain == [i \in 1..(Len(crypt) - AES_BLOCK_SIZE) |->
                     (crypt[AES_BLOCK_SIZE + i] + 256 - (kek % 256)) % 256]
    IN  IF SubSeq(crypt, 1, AES_BLOCK_SIZE) = SivTag(kek, kek_len, plain)
        THEN [ret |-> 0, out |-> plain]
        ELSE [ret |-> -1, out |-> <<>>]

\* octets of the DER SubjectPublicKeyInfo with a compressed point
SubjectPublicKeyLen(group) ==
    CASE group = 19 -> 59
      [] group = 20 -> 72
      [] group = 21 -> 90
      [] OTHER -> 0

\* octets of a DER ECDSA signature (two integers of the order's width)
SignatureLen(group) ==
    CASE group = 19 -> 72
      [] group = 20 -> 104
      [] group = 21 -> 139
      [] OTHER -> 0

\* crypto_ec_prime_len
PrimeLen(group) ==
    CASE group = 19 -> 32
      [] group = 20 -> 48
      [] group = 21 -> 66
      [] OTHER -> 0

\* crypto_ec_key_get_subject_public_key: the encoding names the curve and the
\* key
SubjectPublicKey(id, group) ==
    [i \in 1..SubjectPublicKeyLen(group) |->
        IF i = 1 THEN DER_SEQUENCE ELSE IF i = 2 THEN group ELSE IF i = 3 THEN id
        ELSE (i * 5) % 256]

\* crypto_ec_key_parse_pub and crypto_ec_key_group: [ok, id, group]
crypto_ec_key_parse_pub(k_ap) ==
    IF /\ Len(k_ap) >= 3
       /\ k_ap[1] = DER_SEQUENCE
       /\ k_ap[2] \in {19, 20, 21}
       /\ k_ap = SubjectPublicKey(k_ap[3], k_ap[2])
    THEN [ok |-> TRUE, id |-> k_ap[3], group |-> k_ap[2]]
    ELSE [ok |-> FALSE, id |-> 0, group |-> 0]

\* crypto_ec_key_sign: the signature of digest under the private key id
crypto_ec_key_sign(id, group, digest) ==
    <<DER_SEQUENCE, id>> \o digest
    \o [i \in 1..(SignatureLen(group) - 2 - Len(digest)) |-> (i * 3) % 256]

\* crypto_ec_key_verify_signature: 1 valid, 0 invalid, -1 not a signature
crypto_ec_key_verify_signature(key, digest, sig) ==
    IF Len(sig) < 2 \/ sig[1] # DER_SEQUENCE THEN -1
    ELSE IF sig = crypto_ec_key_sign(key.id, key.group, digest) THEN 1
    ELSE 0

Pow256Table == <<1, 256, 65536, 16777216>>

\* big-endian encoding of v in len octets (v below 2^31)
PadBE(v, len) ==
    [i \in 1..len |-> IF i > len - 4 THEN (v \div Pow256Table[len - i + 1]) % 256
                      ELSE 0]

\* crypto_ec_point_to_bin into x and y of prime_len octets each
crypto_ec_point_to_bin(point, prime_len) ==
    PadBE(point.x, prime_len) \o PadBE(point.y, prime_len)

\* crypto_bignum_to_bin with padding to prime_len
crypto_bignum_to_bin(scalar, prime_len) == PadBE(scalar, prime_len)

\* for_each_element_id / get_vendor_ie: the offset of the first vendor
\* specific element of the type in ies, -1 for NULL
RECURSIVE get_vendor_ie_from(_, _, _)
get_vendor_ie_from(ies, at, vendor_type) ==
    IF Len(ies) - at < 2 THEN -1
    ELSE IF Len(ies) - at < 2 + ies[at + 2] THEN -1
    ELSE IF /\ ies[at + 1] = WLAN_EID_VENDOR_SPECIFIC
            /\ ies[at + 2] >= 4
            /\ SubSeq(ies, at + 3, at + 6) = vendor_type
         THEN at
         ELSE get_vendor_ie_from(ies, at + 2 + ies[at + 2], vendor_type)

get_vendor_ie(ies, vendor_type) == get_vendor_ie_from(ies, 0, vendor_type)

----------------------------------------------------------------------------
(* sae_pk_hash_sig_data *)

\* variant that takes the scalars in the local order whatever the role
sae_pk_hash_sig_data_local_scalars(sae, hash_len, ap, m, pubkey) ==
    LET data == crypto_ec_point_to_bin(IF ap THEN sae.own_commit_element_ecc
                                       ELSE sae.peer_commit_element_ecc,
                                       sae.prime_len)
                \o crypto_ec_point_to_bin(IF ap THEN sae.peer_commit_element_ecc
                                          ELSE sae.own_commit_element_ecc,
                                          sae.prime_len)
                \o crypto_bignum_to_bin(sae.own_commit_scalar, sae.prime_len)
                \o crypto_bignum_to_bin(sae.peer_commit_scalar, sae.prime_len)
                \o m \o pubkey
                \o (IF ap THEN sae.own_addr ELSE sae.peer_addr)
                \o (IF ap THEN sae.peer_addr ELSE sae.own_addr)
        h == sae_hash(hash_len, data)
    IN  [ret |-> IF h.ok THEN 0 ELSE -1, sig_data |-> data, hash |-> h.out]

\* [ret, sig_data, hash]: sig_data is the buffer handed to sae_hash
sae_pk_hash_sig_data(sae, hash_len, ap, m, pubkey) ==
    LET ele1 == IF ap THEN sae.own_commit_element_ecc
                ELSE sae.peer_commit_element_ecc
        ele2 == IF ap THEN sae.peer_commit_element_ecc
                ELSE sae.own_commit_element_ecc
        sca1 == IF ap THEN sae.own_commit_scalar ELSE sae.peer_commit_scalar
        sca2 == IF ap THEN sae.peer_commit_scalar ELSE sae.own_commit_scalar
        fail == [ret |-> -1, sig_data |-> <<>>, hash |-> <<>>]
    IN  IF ~ele1.ok THEN fail
        ELSE IF ~ele2.ok THEN fail
        ELSE IF sca1 < 0 \/ sca2 < 0 THEN fail
        ELSE LET data == crypto_ec_point_to_bin(ele1, sae.prime_len)
                         \o crypto_ec_point_to_bin(ele2, sae.prime_len)
                         \o crypto_bignum_to_bin(sca1, sae.prime_len)
                         \o crypto_bignum_to_bin(sca2, sae.prime_len)
                         \o m \o pubkey
                         \o (IF ap THEN sae.own_addr ELSE sae.peer_addr)
                         \o (IF ap THEN sae.peer_addr ELSE sae.own_addr)
                 h == sae_hash(hash_len, data)
             IN  IF ~h.ok THEN [fail EXCEPT !.sig_data = data]
                 ELSE [ret |-> 0, sig_data |-> data, hash |-> h.out]

----------------------------------------------------------------------------
(* sae_write_confirm_pk *)

\* the AP key container struct sae_pk: m, key (its private key), group, pubkey
NewContainer(id, group, m) ==
    [m |-> m, key |-> id, group |-> group, pubkey |-> SubjectPublicKey(id, group)]

NoWrite == [called |-> FALSE]

\* The inner container: EncryptedModifier, FILS Public Key element and FILS
\* Key Confirmation element, as put into elem
InnerContainer(encr_mod, pubkey, sig) ==
    <<Len(encr_mod) % 256>> \o encr_mod
    \o <<WLAN_EID_EXTENSION, (2 + Len(pubkey)) % 256,
         WLAN_EID_EXT_FILS_PUBLIC_KEY, KEY_TYPE_ECDSA>> \o pubkey
    \o <<WLAN_EID_EXTENSION, (1 + Len(sig)) % 256,
         WLAN_EID_EXT_FILS_KEY_CONFIRM>> \o sig

\* the room check before the element is appended
NoRoomForElement(elem, buf) ==
    wpabuf_tailroom(elem) < VENDOR_HEADER_LEN + wpabuf_len(buf)

\* fault names the collaborator that fails in this call ("none", "sign",
\* "encrypt"). [called, ret, aborted, buf, built, inner, sig_data]: built says
\* that the inner container was assembled (every step before the room check
\* succeeded).
sae_write_confirm_pk(sae, pk, buf, fault) ==
    LET r == [called |-> TRUE, ret |-> -1, aborted |-> FALSE, buf |-> buf,
              built |-> FALSE, inner |-> <<>>, sig_data |-> <<>>]
    IN  IF ~sae.has_tmp THEN r
        ELSE IF ~sae.ap_pk THEN [r EXCEPT !.ret = 0]
        ELSE IF sae.kek_len # 32 /\ sae.kek_len # 48 /\ sae.kek_len # 64 THEN r
        ELSE IF ~sae.ec THEN r
        ELSE
        LET hash_len == sae_group_2_hash_len(pk.group)
            h == sae_pk_hash_sig_data(sae, hash_len, TRUE, pk.m, pk.pubkey)
        IN  IF h.ret < 0 THEN r
            ELSE IF fault = "sign" THEN [r EXCEPT !.sig_data = h.sig_data]
            ELSE IF fault = "encrypt" THEN [r EXCEPT !.sig_data = h.sig_data]
            ELSE
            LET sig == crypto_ec_key_sign(pk.key, pk.group, h.hash)
                encr_mod == aes_siv_encrypt(sae.kek, sae.kek_len, pk.m)
                inner == InnerContainer(encr_mod, pk.pubkey, sig)
                elem == [size |-> ELEM_ALLOC + Len(sig), data |-> inner]
                b == [r EXCEPT !.built = TRUE, !.inner = inner,
                               !.sig_data = h.sig_data]
            IN  IF NoRoomForElement(elem, buf) THEN b
                ELSE LET put == wpabuf_put_data(
                                  wpabuf_put_data(
                                    wpabuf_put_u8(
                                      wpabuf_put_u8([buf |-> buf, aborted |-> FALSE],
                                                    WLAN_EID_VENDOR_SPECIFIC),
                                      4 + wpabuf_len(elem)),
                                    SAE_PK_IE_VENDOR_TYPE),
                                  elem.data)
                     IN  [b EXCEPT !.buf = put.buf, !.aborted = put.aborted,
                                   !.ret = IF put.aborted THEN -1 ELSE 0]

----------------------------------------------------------------------------
(* sae_check_confirm_pk *)

NoCheck == [called |-> FALSE]

\* octet at C offset i of ies
At(ies, i) == ies[i + 1]

\* The walk over the SAE-PK element found at offset sae_pk of ies, from
\* "pos = sae_pk + 2" to the end of the KeyAuth field.
\* [ok, encr_mod, k_ap, key_auth]
ParseSaePkElement(ies, sae_pk) ==
    LET fail == [ok |-> FALSE, encr_mod |-> <<>>, k_ap |-> <<>>, key_auth |-> <<>>]
        pos0 == sae_pk + 2
        end == pos0 + At(ies, sae_pk + 1)
    IN  IF end - pos0 < 4 + 1 + SAE_PK_M_LEN + AES_BLOCK_SIZE THEN fail
        ELSE
        LET pos1 == pos0 + 4
        IN  IF At(ies, pos1) # SAE_PK_M_LEN + AES_BLOCK_SIZE THEN fail
            ELSE
            LET encr_mod == SubSeq(ies, pos1 + 2, pos1 + 1 + SAE_PK_M_LEN + AES_BLOCK_SIZE)
                pos2 == pos1 + 1 + SAE_PK_M_LEN + AES_BLOCK_SIZE
            IN  IF \/ end - pos2 < 4
                   \/ At(ies, pos2) # WLAN_EID_EXTENSION
                   \/ At(ies, pos2 + 1) < 2
                   \/ At(ies, pos2 + 1) > end - pos2 - 2
                   \/ At(ies, pos2 + 2) # WLAN_EID_EXT_FILS_PUBLIC_KEY
                THEN fail
                ELSE IF At(ies, pos2 + 3) # KEY_TYPE_ECDSA THEN fail
                ELSE
                LET k_ap_len == At(ies, pos2 + 1) - 2
                    k_ap == SubSeq(ies, pos2 + 5, pos2 + 4 + k_ap_len)
                    pos3 == pos2 + 4 + k_ap_len
                IN  IF \/ end - pos3 < 4
                       \/ At(ies, pos3) # WLAN_EID_EXTENSION
                       \/ At(ies, pos3 + 1) < 1
                       \/ At(ies, pos3 + 1) > end - pos3 - 2
                       \/ At(ies, pos3 + 2) # WLAN_EID_EXT_FILS_KEY_CONFIRM
                    THEN fail
                    ELSE
                    LET key_auth_len == At(ies, pos3 + 1) - 1
                    IN  [ok |-> TRUE, encr_mod |-> encr_mod, k_ap |-> k_ap,
                         key_auth |-> SubSeq(ies, pos3 + 4, pos3 + 3 + key_auth_len)]

\* variant that only rejects an error return
SignatureAcceptedUnlessError(res) == res >= 0

\* the test of the result of crypto_ec_key_verify_signature
SignatureAccepted(res) == res = 1

Step(name, val) == [step |-> name, val |-> val]

\* The steps after the pre-checks. log records every step executed with what
\* it returned: "find" the offset get_vendor_ie found (-1 none), "format" 1 if
\* the walk over the element succeeded, "decrypt" the return of
\* aes_siv_decrypt, "parse_pub" 1 for a key, "fingerprint" 1 for true, "group"
\* the group of K_AP, "hash" the return of sae_pk_hash_sig_data, "verify" the
\* return of crypto_ec_key_verify_signature.
CheckConfirmSteps(sae, ies, beyond) ==
    LET r0 == [called |-> TRUE, past_prechecks |-> TRUE, ret |-> -1,
               log |-> <<>>, m |-> <<>>, k_ap |-> <<>>, sig_data |-> <<>>]
        sae_pk == get_vendor_ie(ies, SAE_PK_IE_VENDOR_TYPE)
        r1 == [r0 EXCEPT !.log = Append(@, Step("find", sae_pk))]
    IN  IF sae_pk < 0 THEN r1
        ELSE
        LET e == ParseSaePkElement(ies, sae_pk)
            r2 == [r1 EXCEPT !.log = Append(@, Step("format", IF e.ok THEN 1 ELSE 0))]
        IN  IF ~e.ok THEN r2
            ELSE
            LET d == aes_siv_decrypt(sae.kek, sae.kek_len, e.encr_mod)
                r3 == [r2 EXCEPT !.log = Append(@, Step("decrypt", d.ret)),
                                 !.k_ap = e.k_ap, !.m = d.out]
            IN  IF d.ret < 0 THEN r3
                ELSE
                LET key == crypto_ec_key_parse_pub(e.k_ap)
                    r4 == [r3 EXCEPT !.log = Append(@, Step("parse_pub",
                                                        IF key.ok THEN 1 ELSE 0))]
                IN  IF ~key.ok THEN r4
                    ELSE
                    LET group == key.group
                        fp == sae_pk_valid_fingerprint(
                                  sae,
                                  sae_hash(sae_group_2_hash_len(group),
                                           sae.ssid \o d.out \o e.k_ap),
                                  group, beyond)
                        r5 == [r4 EXCEPT !.log = Append(@, Step("fingerprint",
                                                        IF fp.res THEN 1 ELSE 0))]
                    IN  IF ~fp.res THEN r5
                        ELSE
                        LET r6 == [r5 EXCEPT !.log = Append(@, Step("group", group))]
                        IN  IF group # sae.group THEN r6
                            ELSE
                            LET hash_len == sae_group_2_hash_len(group)
                                h == sae_pk_hash_sig_data(sae, hash_len, FALSE,
                                                          d.out, e.k_ap)
                                r7 == [r6 EXCEPT !.log = Append(@, Step("hash", h.ret)),
                                                 !.sig_data = h.sig_data]
                            IN  IF h.ret < 0 THEN r7
                                ELSE
                                LET res == crypto_ec_key_verify_signature(
                                               key, h.hash, e.key_auth)
                                    r8 == [r7 EXCEPT !.log = Append(@, Step("verify", res))]
                                IN  IF ~SignatureAccepted(res) THEN r8
                                    ELSE [r8 EXCEPT !.ret = 0]

\* variant: a session without SAE-PK or with an AP key bound is an error
ReturnNotApplicableAsError(r) == r

\* the return for a session without SAE-PK or with an AP key bound
ReturnNotApplicable(r) == [r EXCEPT !.ret = 0]

\* [called, past_prechecks, ret, log, m, k_ap, sig_data]
sae_check_confirm_pk(sae, ies, beyond) ==
    LET r == [called |-> TRUE, past_prechecks |-> FALSE, ret |-> -1,
              log |-> <<>>, m |-> <<>>, k_ap |-> <<>>, sig_data |-> <<>>]
    IN  IF ~sae.has_tmp THEN r
        ELSE IF ~sae.pk \/ sae.ap_pk THEN ReturnNotApplicable(r)
        ELSE IF sae.kek_len # 32 /\ sae.kek_len # 48 /\ sae.kek_len # 64 THEN r
        ELSE IF ~sae.ec THEN r
        ELSE CheckConfirmSteps(sae, ies, beyond)

------------
(* Bounds and input alphabets *)

MaxPwLen == 11
\* 'a', '-' and 'A' (not in the table)
PwChars == {97, DASH, 65}

MaxSrcLen == 6
MaxExtraDashes == 1
SrcOctets == {0, 172, 255}
BlockOctets == {29, 230}

MaxFpPwLen == 4
\* 'a' (value 0), 'y' (value 24: Sec bits 11), '-' and '='
FpChars == {97, 121, DASH, EQUALS}
\* first characters 'a', 'i', 'q', 'y': Sec = 2, 3, 4, 5
FirstChars == {97, 105, 113, 121}
FillChars == {97, 55}
FpPwLens == {9, 11, 12, 13, 14, 59, 61}
FpGroups == {19, 20, 21, 22}
BeyondOctets == {0, 255}
SecondBlocks == {<<0, 68, 50, 20, 199>>, <<255, 7, 166, 91, 128>>}

----------------------------------------------------------------------------
(* Specification of the password validator *)

\* the set-up in which the two sessions agree
DefaultScenario ==
    [dev |-> "none", pk |-> TRUE, ap_pk |-> FALSE, kek_ok |-> TRUE, ec |-> TRUE,
     tmp |-> TRUE]

\* the variables of the confirm exchange where no exchange takes place
NoConfirm ==
    /\ ap_sae = NoSession /\ pkc = NewContainer(0, 0, <<>>)
    /\ confirm_buf = wpabuf_alloc(0) /\ wres = NoWrite /\ confirm_ies = <<>> /\ cres = NoCheck
    /\ scen = DefaultScenario

InitPw ==
    /\ pc = "start"
    /\ \E n \in 0..MaxPwLen : password \in [1..n -> PwChars]
    /\ valid = FALSE
    /\ src = <<>> /\ len_bits = 0 /\ encoded = NoResult /\ decoded = NoResult
    /\ sta_sae = NoSession /\ hash = NoHash /\ fpres = NoFingerprint
    /\ NoConfirm

ValidPassword ==
    /\ pc = "start"
    /\ valid' = sae_pk_valid_password(password)
    /\ pc' = "validated"
    /\ UNCHANGED <<password, src, len_bits, encoded, decoded, sta_sae, hash, fpres,
                   ap_sae, pkc, confirm_buf, wres, confirm_ies, cres, scen>>

NextPw == ValidPassword

SpecPw == InitPw /\ [][NextPw]_vars

----------------------------------------------------------------------------
(* Specifications of the base-32 codec *)

\* every src of 0..MaxSrcLen octets with every bit length that needs them all
InitEnc ==
    /\ pc = "start"
    /\ \E n \in 0..MaxSrcLen :
          /\ src \in [1..n -> SrcOctets]
          /\ len_bits \in {b \in 0..(8 * n) : (b + 7) \div 8 = n}
    /\ encoded = NoResult /\ decoded = NoResult
    /\ password = <<>> /\ valid = FALSE
    /\ sta_sae = NoSession /\ hash = NoHash /\ fpres = NoFingerprint
    /\ NoConfirm

\* src of whole 5-octet blocks, all its bits encoded
InitCodec ==
    /\ pc = "start"
    /\ \E b1 \in [1..5 -> BlockOctets] :
          src \in {b1} \cup {b1 \o b2 : b2 \in SecondBlocks}
    /\ len_bits = 8 * Len(src)
    /\ encoded = NoResult /\ decoded = NoResult
    /\ password = <<>> /\ valid = FALSE
    /\ sta_sae = NoSession /\ hash = NoHash /\ fpres = NoFingerprint
    /\ NoConfirm

Encode ==
    /\ pc = "start"
    /\ encoded' = sae_pk_base32_encode(src, len_bits)
    /\ pc' = "encoded"
    /\ UNCHANGED <<password, valid, src, len_bits, decoded, sta_sae, hash, fpres,
                   ap_sae, pkc, confirm_buf, wres, confirm_ies, cres, scen>>

\* the caller adds a '-' separator anywhere in the string before decoding it
ExtraDashes(s) ==
    LET dashes == Cardinality({i \in 1..Len(s) : s[i] = DASH})
    IN  dashes - ((Len(s) - dashes - 1) \div 4)

InsertDash ==
    /\ pc = "encoded"
    /\ encoded.ok
    /\ ExtraDashes(encoded.out) < MaxExtraDashes
    /\ \E p \in 0..Len(encoded.out) :
          encoded' = [encoded EXCEPT !.out =
                         SubSeq(encoded.out, 1, p) \o <<DASH>>
                         \o SubSeq(encoded.out, p + 1, Len(encoded.out))]
    /\ UNCHANGED <<pc, password, valid, src, len_bits, decoded, sta_sae, hash, fpres,
                   ap_sae, pkc, confirm_buf, wres, confirm_ies, cres, scen>>

Decode ==
    /\ pc = "encoded"
    /\ encoded.ok
    /\ decoded' = sae_pk_base32_decode(encoded.out)
    /\ pc' = "decoded"
    /\ UNCHANGED <<password, valid, src, len_bits, encoded, sta_sae, hash, fpres,
                   ap_sae, pkc, confirm_buf, wres, confirm_ies, cres, scen>>

NextEnc == Encode

SpecEnc == InitEnc /\ [][NextEnc]_vars

NextCodec == Encode \/ InsertDash \/ Decode

SpecCodec == InitCodec /\ [][NextCodec]_vars

--------------------------------------------------------------------------------------------------------------------------------------------
(* Specification of sae_pk_set_password and sae_pk_valid_fingerprint *)

\* a well-formed password of n characters: first, fill ..., last, with '-'
\* at every offset 4, 9, 14, ...
PatternPassword(n, first, fill, last) ==
    [i \in 1..n |-> IF i % 5 = 0 THEN DASH
                    ELSE IF i = 1 THEN first
                    ELSE IF i = n THEN last
                    ELSE fill]

FpPasswords ==
    UNION {[1..n -> FpChars] : n \in 0..MaxFpPwLen}
    \cup {PatternPassword(n, f, m, l) :
             n \in FpPwLens, f \in FirstChars, m \in FillChars, l \in FillChars}

\* bit k (0 = first bit on the wire) of an octet string
BitAt(b, k) == BitOf(b[(k \div 8) + 1], 7 - (k % 8))

\* bit k of the fingerprint the password stands for: 8 * Sec zero bits, then
\* the bits of pw from its third bit on
ExpectedBit(sae, sec, k) ==
    IF k < 8 * sec THEN 0
    ELSE IF k - 8 * sec + 2 < 8 * sae.pw_len THEN BitAt(sae.pw, k - 8 * sec + 2)
    ELSE 0

OctetOfBits(bit(_), i) ==
    128 * bit(8 * i - 8) + 64 * bit(8 * i - 7) + 32 * bit(8 * i - 6)
    + 16 * bit(8 * i - 5) + 8 * bit(8 * i - 4) + 4 * bit(8 * i - 3)
    + 2 * bit(8 * i - 2) + bit(8 * i - 1)

\* Digests the hash function may return for SSID || M || K_AP: the fingerprint
\* of the password continued with a constant bit, with at most one bit flipped
\* around the places the comparison distinguishes; or a failure.
HashOutputs(sae, group) ==
    LET hash_len == sae_group_2_hash_len(group)
        sec == IF sae.pw_len >= 1 THEN Shr8(sae.pw[1], 6) + 2 ELSE 2
        bits == 8 * sec + 5 * sae.lambda - 2
        last == 8 * ((bits + 7) \div 8)
        Flips == {-1} \cup ({0, 8 * sec, bits - 1, bits, bits + 1, last - 1, last,
                             8 * hash_len - 1} \cap (0..(8 * hash_len - 1)))
        Digest(fill, flip) ==
            LET bit(k) == LET v == IF k < bits THEN ExpectedBit(sae, sec, k) ELSE fill
                          IN  IF k = flip THEN 1 - v ELSE v
            IN  [i \in 1..hash_len |-> OctetOfBits(bit, i)]
    IN  IF ~HashLenSupported(hash_len) THEN {NoHash}
        ELSE {NoHash} \cup {[ok |-> TRUE, out |-> Digest(fill, flip)] :
                               fill \in {0, 1}, flip \in Flips}

InitFp ==
    /\ pc = "start"
    /\ password \in FpPasswords
    /\ sta_sae = NewSession
    /\ hash = NoHash /\ fpres = NoFingerprint
    /\ NoConfirm
    /\ valid = FALSE
    /\ src = <<>> /\ len_bits = 0 /\ encoded = NoResult /\ decoded = NoResult

SetPassword ==
    /\ pc = "start"
    /\ LET r == sae_pk_set_password(sta_sae, password)
       IN  /\ sta_sae' = r.sae
           /\ pc' = IF r.ret = 0 THEN "pw_set" ELSE "pw_failed"
    /\ UNCHANGED <<password, valid, src, len_bits, encoded, decoded, hash, fpres,
                   ap_sae, pkc, confirm_buf, wres, confirm_ies, cres, scen>>

ValidFingerprint ==
    /\ pc = "pw_set"
    /\ \E group \in FpGroups, beyond \in BeyondOctets :
          \E h \in HashOutputs(sta_sae, group) :
             /\ hash' = h
             /\ fpres' = sae_pk_valid_fingerprint(sta_sae, h, group, beyond)
    /\ pc' = "checked"
    /\ UNCHANGED <<password, valid, src, len_bits, encoded, decoded, sta_sae,
                   ap_sae, pkc, confirm_buf, wres, confirm_ies, cres, scen>>

NextFp == SetPassword \/ ValidFingerprint

SpecFp == InitFp /\ [][NextFp]_vars

----------------------------------------------------------------------------
(* Specification of the confirm exchange: the AP builds the element with
   sae_write_confirm_pk, the frame is delivered (or damaged on the way), the
   station checks it with sae_check_confirm_pk *)

\* <<group of the SAE session, group of the AP key container>>
GroupPairs == {<<19, 19>>, <<20, 20>>, <<21, 21>>, <<19, 20>>, <<20, 19>>}

ModifierM == [i \in 1..SAE_PK_M_LEN |-> (17 * i + 3) % 256]

\* the AP's session after the commit exchange in group
ApSession(group) ==
    [NewSession EXCEPT
        !.pk = TRUE, !.ap_pk = TRUE, !.group = group,
        !.kek_len = sae_group_2_hash_len(group), !.kek = 7, !.ec = TRUE,
        !.prime_len = PrimeLen(group),
        !.own_commit_element_ecc = [ok |-> TRUE, x |-> 70001, y |-> 1002],
        !.peer_commit_element_ecc = [ok |-> TRUE, x |-> 2003, y |-> 80005],
        !.own_commit_scalar = 3007, !.peer_commit_scalar = 9000011,
        !.own_addr = <<2, 0, 0, 0, 0, 1>>, !.peer_addr = <<2, 0, 0, 0, 0, 2>>,
        !.ssid = <<115, 97, 101>>]

\* the peer's view of the same exchange, without an AP key
Mirror(sae) ==
    [sae EXCEPT
        !.ap_pk = FALSE,
        !.own_commit_element_ecc = sae.peer_commit_element_ecc,
        !.peer_commit_element_ecc = sae.own_commit_element_ecc,
        !.own_commit_scalar = sae.peer_commit_scalar,
        !.peer_commit_scalar = sae.own_commit_scalar,
        !.own_addr = sae.peer_addr, !.peer_addr = sae.own_addr]

\* The password that goes with (ssid, M, K_AP): Sec = 2 and lambda = 12, its
\* 58 bits after the Sec bits are those of Hash(SSID || M || K_AP) after the
\* two zero octets; written with sae_pk_base32_encode as the AP's tooling does.
MatchingPassword(ssid, pk) ==
    LET h == DigestModel(sae_group_2_hash_len(pk.group), ssid \o pk.m \o pk.pubkey)
        bit(q) == IF q >= 2 /\ q < 60 THEN BitAt(h, 16 + q - 2) ELSE 0
        pw == [i \in 1..8 |-> OctetOfBits(bit, i)]
    IN  sae_pk_base32_encode(pw, 60).out

\* another well-formed password: the last character replaced
OtherPassword(p) ==
    [p EXCEPT ![Len(p)] = IF p[Len(p)] = 97 THEN 98 ELSE 97]

Devs == {"none", "ap_no_key", "ap_kek_len", "ap_no_ec", "ap_no_tmp",
         "ap_bad_element", "sta_kek", "sta_wrong_pw", "sta_no_pw",
         "sta_scalar", "sta_bad_element", "sta_bad_scalar", "sta_addr"}

\* one deviation from the agreeing sessions, or any combination of the
\* station's pre-check conditions
Scenarios ==
    {[DefaultScenario EXCEPT !.dev = d] : d \in Devs}
    \cup {[dev |-> "none", pk |-> a, ap_pk |-> b, kek_ok |-> c, ec |-> d, tmp |-> e] :
             a \in BOOLEAN, b \in BOOLEAN, c \in BOOLEAN, d \in BOOLEAN, e \in BOOLEAN}

ScenarioAp(group, sc) ==
    LET s == ApSession(group)
    IN  CASE sc.dev = "ap_no_key" -> [s EXCEPT !.ap_pk = FALSE]
          [] sc.dev = "ap_kek_len" -> [s EXCEPT !.kek_len = 24]
          [] sc.dev = "ap_no_ec" -> [s EXCEPT !.ec = FALSE]
          [] sc.dev = "ap_no_tmp" -> [s EXCEPT !.has_tmp = FALSE]
          [] sc.dev = "ap_bad_element" -> [s EXCEPT !.peer_commit_element_ecc = NoPoint]
          [] OTHER -> s

ScenarioSta(group, pk, sc) ==
    LET m == Mirror(ApSession(group))
        good == MatchingPassword(m.ssid, pk)
        s0 == IF sc.dev = "sta_no_pw" THEN m
              ELSE sae_pk_set_password(m, IF sc.dev = "sta_wrong_pw"
                                          THEN OtherPassword(good) ELSE good).sae
        s1 == CASE sc.dev = "sta_kek" -> [s0 EXCEPT !.kek = 8]
                [] sc.dev = "sta_scalar" -> [s0 EXCEPT !.own_commit_scalar = 5]
                [] sc.dev = "sta_bad_element" ->
                       [s0 EXCEPT !.own_commit_element_ecc = NoPoint]
                [] sc.dev = "sta_bad_scalar" -> [s0 EXCEPT !.peer_commit_scalar = -1]
                [] sc.dev = "sta_addr" -> [s0 EXCEPT !.own_addr = <<2, 0, 0, 0, 0, 3>>]
                [] OTHER -> s0
    IN  [s1 EXCEPT !.pk = sc.pk, !.ap_pk = sc.ap_pk,
                   !.kek_len = IF sc.kek_ok THEN @ ELSE 24,
                   !.ec = sc.ec, !.has_tmp = sc.tmp]

\* octets of the inner container and of the whole element for a container group
InnerLen(group) ==
    1 + SAE_PK_M_LEN + AES_BLOCK_SIZE + 4 + SubjectPublicKeyLen(group)
    + 3 + SignatureLen(group)

\* <<octets already in the confirm buffer, tailroom>>
DefaultShape == <<34, 1506>>
BufShapes(group) ==
    {<<used, room>> :
        used \in {0, 34, 1460},
        room \in {0, 5, 100, VENDOR_HEADER_LEN + InnerLen(group) - 1,
                  VENDOR_HEADER_LEN + InnerLen(group), 1506}}

InitConfirm ==
    /\ pc = "start"
    /\ \E gp \in GroupPairs, sc \in Scenarios :
          \E shape \in BufShapes(gp[2]) :
             /\ sc = DefaultScenario \/ shape = DefaultShape
             /\ scen = sc
             /\ pkc = NewContainer(11, gp[2], ModifierM)
             /\ ap_sae = ScenarioAp(gp[1], sc)
             /\ sta_sae = ScenarioSta(gp[1], NewContainer(11, gp[2], ModifierM), sc)
             /\ confirm_buf = [size |-> shape[1] + shape[2],
                       data |-> [i \in 1..shape[1] |-> 170]]
    /\ wres = NoWrite /\ confirm_ies = <<>> /\ cres = NoCheck
    /\ password = <<>> /\ valid = FALSE
    /\ src = <<>> /\ len_bits = 0 /\ encoded = NoResult /\ decoded = NoResult
    /\ hash = NoHash /\ fpres = NoFingerprint

WriteFaults == {"none", "sign", "encrypt"}

WriteConfirm ==
    /\ pc = "start"
    /\ \E fault \in WriteFaults :
          LET r == sae_write_confirm_pk(ap_sae, pkc, confirm_buf, fault)
          IN  /\ wres' = [r EXCEPT !.buf = confirm_buf]
              /\ confirm_buf' = r.buf
              /\ pc' = IF r.aborted THEN "aborted"
                       ELSE IF r.ret = 0 THEN "written" ELSE "write_failed"
    /\ UNCHANGED <<password, valid, src, len_bits, encoded, decoded, sta_sae, hash,
                   fpres, ap_sae, pkc, confirm_ies, cres, scen>>

\* what the call appended to the confirm buffer
Appended == SubSeq(confirm_buf.data, Len(wres.buf.data) + 1, Len(confirm_buf.data))

Tampers == {"none", "type", "short_len", "enc_len", "enc_tag", "enc_text",
            "ext_id1", "len1_small", "len1_big", "ext1", "key_type", "k_ap_hdr",
            "k_ap_id", "k_ap_fill", "ext_id2", "len2_zero", "len2_big",
            "len2_short", "ext2", "sig_hdr", "sig_digest", "trailing",
            "prefix", "empty", "truncated"}

Bump(e, i) == IF i + 1 <= Len(e) THEN [e EXCEPT ![i + 1] = (@ + 1) % 256] ELSE e
SetAt(e, i, v) == IF i + 1 <= Len(e) THEN [e EXCEPT ![i + 1] = v] ELSE e

\* the element e as it arrives: unchanged, or with one field changed (offsets
\* of the element sae_write_confirm_pk lays out, k the length of K_AP)
Tamper(e, t) ==
    LET k == IF Len(e) > 40 THEN e[41] - 2 ELSE 0
    IN  CASE t = "none" -> e
          [] t = "type" -> Bump(e, 5)
          [] t = "short_len" -> SetAt(e, 1, 20)
          [] t = "enc_len" -> Bump(e, 6)
          [] t = "enc_tag" -> Bump(e, 7)
          [] t = "enc_text" -> Bump(e, 30)
          [] t = "ext_id1" -> SetAt(e, 39, 254)
          [] t = "len1_small" -> SetAt(e, 40, 1)
          [] t = "len1_big" -> SetAt(e, 40, 255)
          [] t = "ext1" -> Bump(e, 41)
          [] t = "key_type" -> SetAt(e, 42, 2)
          [] t = "k_ap_hdr" -> Bump(e, 43)
          [] t = "k_ap_id" -> Bump(e, 45)
          [] t = "k_ap_fill" -> Bump(e, 50)
          [] t = "ext_id2" -> SetAt(e, 43 + k, 254)
          [] t = "len2_zero" -> SetAt(e, 44 + k, 0)
          [] t = "len2_big" -> SetAt(e, 44 + k, 255)
          [] t = "len2_short" -> IF 45 + k <= Len(e) THEN SetAt(e, 44 + k, e[45 + k] - 1)
                                 ELSE e
          [] t = "ext2" -> Bump(e, 45 + k)
          [] t = "sig_hdr" -> Bump(e, 46 + k)
          [] t = "sig_digest" -> Bump(e, 50 + k)
          [] t = "trailing" -> IF Len(e) >= 2 /\ e[2] <= 253
                               THEN SetAt(e, 1, e[2] + 2) \o <<1, 2>> ELSE e
          [] t = "prefix" -> <<1, 2, 0, 0, WLAN_EID_VENDOR_SPECIFIC, 4, 80, 111, 154, 9>> \o e
          [] t = "empty" -> <<>>
          [] t = "truncated" -> SubSeq(e, 1, Len(e) \div 2)

Deliver ==
    /\ pc = "written"
    /\ \E t \in Tampers :
          /\ t = "none" \/ scen = DefaultScenario
          /\ confirm_ies' = Tamper(Appended, t)
    /\ pc' = "delivered"
    /\ UNCHANGED <<password, valid, src, len_bits, encoded, decoded, sta_sae, hash,
                   fpres, ap_sae, pkc, confirm_buf, wres, cres, scen>>

CheckConfirm ==
    /\ pc = "delivered"
    /\ \E beyond \in BeyondOctets :
          cres' = sae_check_confirm_pk(sta_sae, confirm_ies, beyond)
    /\ pc' = "checked"
    /\ UNCHANGED <<password, valid, src, len_bits, encoded, decoded, sta_sae, hash,
                   fpres, ap_sae, pkc, confirm_buf, wres, confirm_ies, scen>>

NextConfirm == WriteConfirm \/ Deliver \/ CheckConfirm

SpecConfirm == InitConfirm /\ [][NextConfirm]_vars

------------
(* Properties of the password validator and the codec *)

\* the 32 characters a-z, 2-7
Base32Alphabet == (97..122) \cup (50..55)

\* C6: sae_pk_valid_password(p) is true exactly when p has at least 9
\* characters, every index i with i mod 5 = 4 holds '-', every other index
\* holds an alphabet character, and the last character is not '-'.
C6_ValidPassword ==
    pc = "validated" =>
        (valid <=>
            /\ Len(password) >= 9
            /\ \A i \in 0..(Len(password) - 1) :
                  IF i % 5 = 4 THEN password[i + 1] = DASH
                  ELSE password[i + 1] \in Base32Alphabet
            /\ password[Len(password)] # DASH)

C6_Witness ==
    pc = "validated" /\ valid /\ Len(password) = 11

\* the characters of s other than '-'
StripDashes(s) == SelectSeq(s, LAMBDA c : c # DASH)

\* chars with one '-' after every g characters that are followed by another
RECURSIVE Grouped(_, _)
Grouped(chars, g) ==
    IF Len(chars) <= g THEN chars
    ELSE SubSeq(chars, 1, g) \o <<DASH>> \o Grouped(SubSeq(chars, g + 1, Len(chars)), g)

\* C9 (as stated): sae_pk_base32_encode puts a '-' exactly where the number of
\* alphabet characters emitted so far is a multiple of 5 and another character
\* follows.
C9_DashEveryFive ==
    (pc = "encoded" /\ encoded.ok) =>
        encoded.out = Grouped(StripDashes(encoded.out), 5)

\* C9 (amended): sae_pk_base32_encode puts a '-' exactly where the number of
\* alphabet characters emitted so far is a multiple of 4 and another character
\* follows (output offsets 4, 9, 14, ...); there is no other '-', the output
\* never ends with '-', and every other character is an alphabet character.
C9_DashEveryFour ==
    (pc = "encoded" /\ encoded.ok) =>
        /\ encoded.out = Grouped(StripDashes(encoded.out), 4)
        /\ \A i \in 1..Len(encoded.out) :
              encoded.out[i] = DASH \/ encoded.out[i] \in Base32Alphabet
        /\ encoded.out # <<>> /\ encoded.out[Len(encoded.out)] # DASH

C9_Witness ==
    /\ pc = "encoded" /\ encoded.ok
    /\ Len(encoded.out) = 11 /\ encoded.out[5] = DASH /\ encoded.out[10] = DASH

\* C7: decoding the encoding of a whole number of 5-octet blocks returns the
\* octets, also with extra '-' separators inserted anywhere in the string.
C7_RoundTrip ==
    pc = "decoded" =>
        /\ decoded.ok
        /\ decoded.out = src
        /\ Len(decoded.out) = Len(src)

C7_Witness ==
    /\ pc = "decoded" /\ Len(src) = 10 /\ decoded.out = src
    /\ ExtraDashes(encoded.out) >= 1

----------------------------------------------------------------------------
(* Properties of the fingerprint check *)

\* the password is well formed (as C6 describes it)
WellFormed(p) ==
    /\ Len(p) >= 9
    /\ \A i \in 0..(Len(p) - 1) :
          IF i % 5 = 4 THEN p[i + 1] = DASH ELSE p[i + 1] \in Base32Alphabet
    /\ p[Len(p)] # DASH

\* C8: for a valid password, sae_pk_valid_fingerprint returns false when the
\* fingerprint is wider than the digest, and otherwise returns true exactly when
\* the leading 8*Sec + 5*lambda - 2 bits of the digest equal those of Sec zero
\* octets followed by pw shifted left by two bits; no later bit of the digest
\* matters.
C8_FingerprintWidth ==
    (pc = "checked" /\ WellFormed(password)) =>
        LET sec == Shr8(sta_sae.pw[1], 6) + 2
            bits == 8 * sec + 5 * sta_sae.lambda - 2
        IN  /\ sta_sae.lambda = Len(StripDashes(password))
            /\ (~hash.ok \/ bits > 8 * fpres.hash_len) => ~fpres.res
            /\ (hash.ok /\ bits <= 8 * fpres.hash_len) =>
                  (fpres.res <=>
                      \A k \in 0..(bits - 1) :
                          BitAt(hash.out, k) = ExpectedBit(sta_sae, sec, k))

\* accepted although a bit of the last compared octet beyond the fingerprint is set
C8_Witness ==
    /\ pc = "checked" /\ WellFormed(password) /\ hash.ok /\ fpres.res
    /\ fpres.bits % 8 = 6
    /\ BitAt(hash.out, fpres.bits) # BitAt(hash.out, fpres.bits + 1)

\* C10 (as stated): for every password sae_pk_set_password accepted, the
\* comparison in sae_pk_valid_fingerprint reads at most Sec + pw_len octets of
\* the expected fingerprint and at most hash_len octets of the digest.
C10_CompareInBounds ==
    (pc = "checked" /\ fpres.compared) =>
        /\ fpres.bytes <= fpres.exp_len
        /\ fpres.exp_len = fpres.sec + sta_sae.pw_len
        /\ fpres.bytes <= fpres.hash_len

----------------------------------------------------------------------------
(* Properties of the confirm exchange *)

StepOrder == <<"find", "format", "decrypt", "parse_pub", "fingerprint", "group",
               "hash", "verify">>

\* what it means for a step of sae_check_confirm_pk to have succeeded
StepSucceeded(e) ==
    CASE e.step = "find" -> e.val >= 0
      [] e.step = "format" -> e.val = 1
      [] e.step = "decrypt" -> e.val >= 0
      [] e.step = "parse_pub" -> e.val = 1
      [] e.step = "fingerprint" -> e.val = 1
      [] e.step = "group" -> e.val = sta_sae.group
      [] e.step = "hash" -> e.val >= 0
      [] e.step = "verify" -> e.val = 1

\* C1: past its pre-checks sae_check_confirm_pk runs its steps in the order
\* element found, wire format, decryption, K_AP parsed, fingerprint, group,
\* transcript hash, signature; it returns 0 only if all eight succeeded (the
\* signature verification with exactly 1), and -1 right after the first step
\* that failed, with no later step executed.
C1_StepsInOrder ==
    (pc = "checked" /\ cres.past_prechecks) =>
        LET n == Len(cres.log)
        IN  /\ n >= 1 /\ n <= 8
            /\ \A i \in 1..n : cres.log[i].step = StepOrder[i]
            /\ \A i \in 1..(n - 1) : StepSucceeded(cres.log[i])
            /\ cres.ret \in {0, -1}
            /\ cres.ret = 0 <=> (n = 8 /\ StepSucceeded(cres.log[8]))
            /\ cres.ret = -1 <=> ~StepSucceeded(cres.log[n])

C1_Witness ==
    /\ pc = "checked" /\ cres.past_prechecks
    /\ cres.ret = 0 /\ Len(cres.log) = 8 /\ cres.log[8].val = 1

PrecheckFails(sae) ==
    \/ ~sae.pk
    \/ sae.ap_pk
    \/ sae.kek_len \notin {32, 48, 64}
    \/ ~sae.ec

\* C2 (as stated): sae_check_confirm_pk returns -1, never 0, whenever SAE-PK
\* is not enabled, an AP key is bound, kek_len is not 32/48/64 or there is no
\* ECC group.
C2_PrecheckFailureIsError ==
    (pc = "checked" /\ PrecheckFails(sta_sae)) => cres.ret = -1

\* C2 (amended): sae_check_confirm_pk returns -1 without a session's
\* temporary data; otherwise, when SAE-PK is not enabled or an AP key is bound
\* it returns 0 without looking at the elements, whatever kek_len and the group
\* are; otherwise it returns -1 without looking at the elements when kek_len is
\* not 32/48/64 or there is no ECC group.
C2_PrecheckReturns ==
    pc = "checked" =>
        IF ~sta_sae.has_tmp THEN cres.ret = -1 /\ cres.log = <<>>
        ELSE IF ~sta_sae.pk \/ sta_sae.ap_pk THEN cres.ret = 0 /\ cres.log = <<>>
        ELSE IF sta_sae.kek_len \notin {32, 48, 64} \/ ~sta_sae.ec
             THEN cres.ret = -1 /\ cres.log = <<>>
        ELSE cres.past_prechecks

C2_Witness ==
    /\ pc = "checked" /\ sta_sae.has_tmp /\ ~sta_sae.pk
    /\ sta_sae.kek_len = 24 /\ ~sta_sae.ec /\ cres.ret = 0

\* C3 (as stated): once the inner container is assembled,
\* sae_write_confirm_pk fails with -1 and leaves buf alone when the tailroom of
\* buf is below 6 + |inner|, and appends the element when it is not.
C3_RoomCheck ==
    (wres.called /\ wres.built) =>
        IF wpabuf_tailroom(wres.buf) < VENDOR_HEADER_LEN + Len(wres.inner)
        THEN wres.ret = -1 /\ ~wres.aborted /\ confirm_buf = wres.buf
        ELSE /\ wres.ret = 0 /\ ~wres.aborted
             /\ Len(confirm_buf.data)
                   = Len(wres.buf.data) + VENDOR_HEADER_LEN + Len(wres.inner)
             /\ SubSeq(confirm_buf.data, 1, Len(wres.buf.data)) = wres.buf.data
             /\ SubSeq(confirm_buf.data,
                       Len(wres.buf.data) + VENDOR_HEADER_LEN + 1,
                       Len(confirm_buf.data)) = wres.inner

\* the two sessions hold each other's view of the commit exchange
Mirrored(a, s) ==
    /\ a.own_commit_element_ecc = s.peer_commit_element_ecc
    /\ a.peer_commit_element_ecc = s.own_commit_element_ecc
    /\ a.own_commit_scalar = s.peer_commit_scalar
    /\ a.peer_commit_scalar = s.own_commit_scalar
    /\ a.own_addr = s.peer_addr
    /\ a.peer_addr = s.own_addr
    /\ a.prime_len = s.prime_len

\* C4 (as stated): for a container of group 19, 20 or 21 and sessions that
\* agree (elements, scalars, addresses, kek, SSID, group, matching password),
\* the element sae_write_confirm_pk appended is accepted by
\* sae_check_confirm_pk, with the container's M and K_AP.
C4_RoundTrip ==
    (/\ pc = "checked"
     /\ scen = DefaultScenario
     /\ pkc.group = sta_sae.group /\ pkc.group = ap_sae.group
     /\ Mirrored(ap_sae, sta_sae)
     /\ wres.built /\ wres.ret = 0
     /\ confirm_ies = Appended)
    => /\ cres.ret = 0
       /\ cres.m = pkc.m
       /\ cres.k_ap = pkc.pubkey

\* ele_AP || ele_STA || sca_AP || sca_STA || M || K_AP || BSSID(AP) || MAC(STA)
Transcript(a, s, m, k_ap) ==
    PadBE(a.own_commit_element_ecc.x, a.prime_len)
    \o PadBE(a.own_commit_element_ecc.y, a.prime_len)
    \o PadBE(s.own_commit_element_ecc.x, a.prime_len)
    \o PadBE(s.own_commit_element_ecc.y, a.prime_len)
    \o PadBE(a.own_commit_scalar, a.prime_len)
    \o PadBE(s.own_commit_scalar, a.prime_len)
    \o m \o k_ap \o a.own_addr \o s.own_addr

\* C5: with mirrored sessions and the same M and K_AP, the octets the station
\* hashes (ap = false) are those the AP hashed (ap = true), and they are
\* ele_AP || ele_STA || sca_AP || sca_STA || M || K_AP || BSSID || MAC(STA),
\* 6 * prime_len + |M| + |K_AP| + 12 octets.
C5_TranscriptSymmetry ==
    (/\ pc = "checked"
     /\ Len(cres.log) >= 7 /\ cres.log[7].val = 0
     /\ wres.built
     /\ Mirrored(ap_sae, sta_sae)
     /\ cres.m = pkc.m /\ cres.k_ap = pkc.pubkey)
    => /\ cres.sig_data = wres.sig_data
       /\ wres.sig_data = Transcript(ap_sae, sta_sae, pkc.m, pkc.pubkey)
       /\ Len(wres.sig_data)
             = 6 * ap_sae.prime_len + Len(pkc.m) + Len(pkc.pubkey) + 12

C5_Witness ==
    /\ pc = "checked"
    /\ Len(cres.log) >= 7 /\ cres.log[7].val = 0
    /\ wres.built
    /\ Mirrored(ap_sae, sta_sae)
    /\ cres.m = pkc.m /\ cres.k_ap = pkc.pubkey
    /\ ap_sae.own_commit_scalar # sta_sae.own_commit_scalar
    /\ cres.sig_data = wres.sig_data

====
